---------------------------- MODULE Spec2Model ----------------------------
(***************************************************************************)
(* Credit Trail (New-York-Trail): the turn engine of src/game.py together  *)
(* with the character operations of src/characters.py and the market       *)
(* return of src/market.py.                                                *)
(*                                                                         *)
(* Units.  Python floats are modelled in fixed point:                      *)
(*   money (savings, debt, income, investments, monthly_expenses,          *)
(*          pending_debt)            : cents, rounded down                 *)
(*   credit_score                    : hundredths of a point               *)
(*   risk_rating                     : tenths                              *)
(*   stress, health, reputation      : points                              *)
(*   probabilities (base_chance, volunteer_bonus, random.random())         *)
(*                                   : 1/1200                              *)
(* An attribute that has not been set yet (pending_debt, volunteer_bonus   *)
(* are created on first assignment) holds Unset.                           *)
(***************************************************************************)
EXTENDS Integers, Sequences, FiniteSets, TLC

VARIABLES
    character,              \* Game.character: the Character's attributes
    current_date,           \* Game.current_date
    turn,                   \* Game.turn
    game_over,              \* Game.game_over
    monthly_expenses,       \* Game.monthly_expenses
    message,                \* which end_game message / final panel was shown
    pc,                     \* position in Game.start's loop
    allow_multiple_actions, \* play_turn: the surge fired this turn
    main_actions_taken,     \* process_player_actions: main actions taken
    base_chance,            \* play_turn: the trigger probability last computed
    choice,                 \* process_player_actions: the last main action or
                            \* "end_turn" chosen this turn
    event_turn,             \* the turn get_random_event was last called on
    call,                   \* the last direct call of a method or function:
                            \* its name, argument and return value, and how
                            \* many such calls were made
    used                    \* how much of each exploration bound is used up

vars == <<character, current_date, turn, game_over, monthly_expenses, message,
          pc, allow_multiple_actions, main_actions_taken, base_chance, choice,
          event_turn, call, used>>

---------------------------------------------------------------------------
(* Exploration bounds *)

\* The player uses Volunteer and the secondary menu, the market moves and
\* expenses exceed savings (after the first turn) only on the first
\* ExtrasTurns turns, and a session in which any of that happened is followed
\* through turn ExtrasTurns.
ExtrasTurns == 3
\* Through turn HorizonTurns the player chooses freely among Work, Relax and
\* End turn and the surge may fire; a session with a surge is followed through
\* turn HorizonTurns.  From then until the last turn the player works whenever
\* that costs no health and relaxes otherwise.
HorizonTurns == 20
\* Extras of a session: Volunteer actions, completed payments, investments and
\* bets, non-zero market returns, and turns after the first whose expenses
\* exceed savings.
MaxExtras == 2
MaxSurges == 1          \* turns of a session on which the surge fires

---------------------------------------------------------------------------
(* Program constants *)

Unset == -1
max_turns == 48

Min(a, b) == IF a <= b THEN a ELSE b
Max(a, b) == IF a >= b THEN a ELSE b

\* a * k / d rounded down, without forming the product a * k
MulDiv(a, k, d) == (a \div d) * k + ((a % d) * k) \div d

---------------------------------------------------------------------------
(* src/characters.py *)

Character(name, savings, debt, income, risk_rating) ==
    [name |-> name, savings |-> savings, debt |-> debt, income |-> income,
     risk_rating |-> risk_rating, investments |-> 0, credit_score |-> 700 * 100,
     monthly_expenses |-> income \div 24,
     stress |-> 50, health |-> 80, reputation |-> 70,
     pending_debt |-> Unset, volunteer_bonus |-> Unset]

Hudson ==
    [Character("Hudson", 6500 * 100, 0, 62000 * 100, 55)
        EXCEPT !.credit_score = 720 * 100, !.stress = 45]

Jane ==
    [Character("Jane", 0, 8000 * 100, 80000 * 100, 20)
        EXCEPT !.credit_score = 680 * 100, !.stress = 60, !.savings = 2000 * 100]

get_monthly_income(c) == c.income \div 12

get_net_worth(c) == c.savings + c.investments - c.debt

\* a variant of work that lets stress grow past 100; WorkCredited tells the
\* two apart
work_unsaturated(c) ==
    [c EXCEPT !.savings = @ + get_monthly_income(c), !.stress = @ + 10]

work(c) ==
    LET earned == get_monthly_income(c)
        c1 == [c EXCEPT !.savings = @ + earned, !.stress = @ + 10]
    IN  IF c1.stress > 100
        THEN [c1 EXCEPT !.stress = 100, !.health = @ - 25]
        ELSE c1

\* a variant of relax that always takes 25 off the stress and does not cap
\* the health; RelaxRecovers tells the two apart
relax_fixed(c) == [c EXCEPT !.stress = @ - 25, !.health = @ + 5]

\* relax: the value returned
relax_stress_reduction(c) == Min(25, c.stress)

relax(c) ==
    LET stress_reduction == relax_stress_reduction(c)
        c1 == [c EXCEPT !.stress = @ - stress_reduction, !.health = @ + 5]
    IN  IF c1.health > 100 THEN [c1 EXCEPT !.health = 100] ELSE c1

pay_debt_payment(c, amount) ==
    LET payment == Min(amount, c.debt)
    IN  IF payment > c.savings THEN c.savings ELSE payment

\* a variant of pay_debt that caps the payment at the savings only;
\* DebtPaid tells the two apart
pay_debt_ignores_debt(c, amount) ==
    LET payment == Min(amount, c.savings)
        c1 == [c EXCEPT !.savings = @ - payment, !.debt = @ - payment,
                        !.credit_score = @ + payment \div 1000]
    IN  IF c1.credit_score > 850 * 100
        THEN [c1 EXCEPT !.credit_score = 850 * 100]
        ELSE c1

\* a variant of pay_debt that caps the payment at the debt only;
\* JanePaysDebt tells the two apart
pay_debt_ignores_savings(c, amount) ==
    LET payment == Min(amount, c.debt)
        c1 == [c EXCEPT !.savings = @ - payment, !.debt = @ - payment,
                        !.credit_score = @ + payment \div 1000]
    IN  IF c1.credit_score > 850 * 100
        THEN [c1 EXCEPT !.credit_score = 850 * 100]
        ELSE c1

\* a variant of pay_debt that takes the capped payment from the savings and
\* the amount asked for off the debt; NetWorthKept tells the two apart
pay_debt_amount_off_debt(c, amount) ==
    LET payment == pay_debt_payment(c, amount)
        c1 == [c EXCEPT !.savings = @ - payment, !.debt = @ - amount,
                        !.credit_score = @ + payment \div 1000]
    IN  IF c1.credit_score > 850 * 100
        THEN [c1 EXCEPT !.credit_score = 850 * 100]
        ELSE c1

\* a variant of pay_debt that takes the credit points instead of adding
\* them; CreditNeverFalls tells the two apart
pay_debt_penalised(c, amount) ==
    LET payment == pay_debt_payment(c, amount)
    IN  [c EXCEPT !.savings = @ - payment, !.debt = @ - payment,
                  !.credit_score = @ - payment \div 1000]

pay_debt(c, amount) ==
    LET payment == pay_debt_payment(c, amount)
        c1 == [c EXCEPT !.savings = @ - payment, !.debt = @ - payment,
                        !.credit_score = @ + payment \div 1000]
    IN  IF c1.credit_score > 850 * 100
        THEN [c1 EXCEPT !.credit_score = 850 * 100]
        ELSE c1

invest_amount(c, amount) == IF amount > c.savings THEN c.savings ELSE amount

\* a variant of invest that moves the amount asked for, whatever the
\* savings; InvestMoves tells the two apart
invest_uncapped(c, amount) ==
    [c EXCEPT !.savings = @ - amount, !.investments = @ + amount]

invest(c, amount) ==
    LET a == invest_amount(c, amount)
    IN  [c EXCEPT !.savings = @ - a, !.investments = @ + a]

---------------------------------------------------------------------------
(* Dates: records [year, month, day] *)

Date(y, m, d) == [year |-> y, month |-> m, day |-> d]

IsLeap(y) == y % 4 = 0 /\ (y % 100 # 0 \/ y % 400 = 0)

DaysInMonth(y, m) ==
    <<31, IF IsLeap(y) THEN 29 ELSE 28, 31, 30, 31, 30, 31, 31, 30, 31, 30, 31>>[m]

\* a variant of add_one_month that takes every fourth year for a leap year;
\* MonthAdded tells the two apart
add_one_month_julian(date) ==
    LET month == IF date.month = 12 THEN 1 ELSE date.month + 1
        year == IF date.month = 12 THEN date.year + 1 ELSE date.year
        length == IF month = 2 /\ year % 4 = 0 THEN 29
                  ELSE DaysInMonth(year, month)
        day == Min(date.day, length)
    IN  Date(year, month, day)

\* a variant of add_one_month that does not move to the next year after
\* December; DateFollowsTurn tells the two apart
add_one_month_same_year(date) ==
    LET month == IF date.month = 12 THEN 1 ELSE date.month + 1
        day == Min(date.day, DaysInMonth(date.year, month))
    IN  Date(date.year, month, day)

add_one_month(date) ==
    LET month == IF date.month = 12 THEN 1 ELSE date.month + 1
        year == IF date.month = 12 THEN date.year + 1 ELSE date.year
        day == Min(date.day, DaysInMonth(year, month))
    IN  Date(year, month, day)

RECURSIVE DaysBeforeYear(_)
DaysBeforeYear(y) ==
    IF y <= 2000 THEN 0
    ELSE DaysBeforeYear(y - 1) + (IF IsLeap(y - 1) THEN 366 ELSE 365)

RECURSIVE DaysBeforeMonth(_, _)
DaysBeforeMonth(y, m) ==
    IF m <= 1 THEN 0 ELSE DaysBeforeMonth(y, m - 1) + DaysInMonth(y, m - 1)

\* days since 2000-01-01: the difference of two of them is (d1 - d2).days
Ordinal(date) ==
    DaysBeforeYear(date.year) + DaysBeforeMonth(date.year, date.month) + date.day - 1

Abs(x) == IF x < 0 THEN -x ELSE x

DaysApart(d1, d2) == Abs(Ordinal(d1) - Ordinal(d2))

---------------------------------------------------------------------------
(* src/market.py *)

lehman_collapse == Date(2008, 9, 15)
market_peak == Date(2007, 10, 9)
bear_stearns_collapse == Date(2008, 3, 14)

\* a variant of ReturnRange whose windows include the day 60, 30 or 45 days
\* away; RangeByDate tells the two apart
ReturnRangeInclusive(date) ==
    IF DaysApart(date, lehman_collapse) <= 60 THEN <<-25, 5>>
    ELSE IF DaysApart(date, market_peak) <= 30 THEN <<-2, 15>>
    ELSE IF DaysApart(date, bear_stearns_collapse) <= 45 THEN <<-15, 8>>
    ELSE <<-8, 12>>

\* the range random.uniform samples base_return from, in percent
ReturnRange(date) ==
    IF DaysApart(date, lehman_collapse) < 60 THEN <<-25, 5>>
    ELSE IF DaysApart(date, market_peak) < 30 THEN <<-2, 15>>
    ELSE IF DaysApart(date, bear_stearns_collapse) < 45 THEN <<-15, 8>>
    ELSE <<-8, 12>>

\* the values of base_return (percent) the model draws: the ends of the range
\* and 0, which lies in every range
ReturnSamples(date) == {ReturnRange(date)[1], 0, ReturnRange(date)[2]}

\* a variant of risk_multiplier that starts from 1.0; ReturnScaled tells the
\* two apart
risk_multiplier_from_one(risk_rating) == 100 + risk_rating

\* risk_multiplier = 0.5 + risk_rating / 10, in hundredths
risk_multiplier(risk_rating) == 50 + risk_rating

\* new_amount of calculate_investment_return for the sampled base_return
calculate_investment_return(amount, risk_rating, base_return) ==
    amount + MulDiv(amount, base_return * risk_multiplier(risk_rating), 10000)

\* d1 < d2 on datetime.date
DateBefore(d1, d2) ==
    \/ d1.year < d2.year
    \/ d1.year = d2.year /\ d1.month < d2.month
    \/ d1.year = d2.year /\ d1.month = d2.month /\ d1.day < d2.day

housing_peak == Date(2006, 4, 1)
subprime_start == Date(2007, 2, 1)
bear_stearns == Date(2008, 3, 14)
lehman == Date(2008, 9, 15)
bottom == Date(2009, 3, 9)

\* a variant of get_market_sentiment that gives a date equal to a boundary
\* the earlier string; SentimentSteps tells the two apart
get_market_sentiment_late(date) ==
    IF ~DateBefore(housing_peak, date)
    THEN "Housing market booming, confidence high"
    ELSE IF ~DateBefore(subprime_start, date)
    THEN "Housing prices leveling off, but markets strong"
    ELSE IF ~DateBefore(bear_stearns, date)
    THEN "Concerns about subprime mortgages, market volatile"
    ELSE IF ~DateBefore(lehman, date)
    THEN "Serious financial instability, Bear Stearns bailout"
    ELSE IF ~DateBefore(bottom, date)
    THEN "Financial crisis in full effect, panic in markets"
    ELSE "Markets beginning to stabilize, signs of recovery"

get_market_sentiment(date) ==
    IF DateBefore(date, housing_peak)
    THEN "Housing market booming, confidence high"
    ELSE IF DateBefore(date, subprime_start)
    THEN "Housing prices leveling off, but markets strong"
    ELSE IF DateBefore(date, bear_stearns)
    THEN "Concerns about subprime mortgages, market volatile"
    ELSE IF DateBefore(date, lehman)
    THEN "Serious financial instability, Bear Stearns bailout"
    ELSE IF DateBefore(date, bottom)
    THEN "Financial crisis in full effect, panic in markets"
    ELSE "Markets beginning to stabilize, signs of recovery"

---------------------------------------------------------------------------
(* src/events.py *)

\* A delta of the savings, debt, income or investment field: a Python number,
\* float or int, in hundredths (cents for an amount, percent for a fraction).
\* credit_score deltas are in hundredths of a point, stress, health and
\* reputation deltas in points.
FloatDelta(value) == [float |-> TRUE, value |-> value]
IntDelta(value) == [float |-> FALSE, value |-> value * 100]

\* a variant of is_percentage that takes -1.0 and 1.0 for fractions too;
\* DeltaRule tells the two apart
is_percentage_inclusive(delta) ==
    delta.float /\ -100 <= delta.value /\ delta.value <= 100

\* isinstance(change, float) and -1 < change < 1
is_percentage(delta) ==
    delta.float /\ -100 < delta.value /\ delta.value < 100

\* the change of a field holding current for the delta
resolve_change(delta, current) ==
    IF is_percentage(delta) THEN MulDiv(current, delta.value, 100)
    ELSE delta.value

Clamp(x, lo, hi) == IF x > hi THEN hi ELSE IF x < lo THEN lo ELSE x

\* FinancialEvent.__init__ and LifeEvent.__init__ with every delta at its
\* default of 0
Event(class, title) ==
    [class |-> class, title |-> title,
     savings_change |-> IntDelta(0), debt_change |-> IntDelta(0),
     income_change |-> IntDelta(0), investment_change |-> IntDelta(0),
     credit_score_change |-> 0, stress_change |-> 0, health_change |-> 0,
     reputation_change |-> 0]

FinancialEvent(title) == Event("FinancialEvent", title)
LifeEvent(title) == Event("LifeEvent", title)

\* returned when no event occurs
None == Event("None", "None")

\* the four financial fields after the event: both classes apply them the
\* same way, each from the field's own current value
apply_financial_fields(ev, c) ==
    [c EXCEPT
        !.savings = @ + resolve_change(ev.savings_change, @),
        !.debt = @ + resolve_change(ev.debt_change, @),
        !.income = @ + resolve_change(ev.income_change, @),
        !.investments = @ + resolve_change(ev.investment_change, @)]

\* FinancialEvent.apply: the character afterwards
FinancialEvent_apply(ev, c) ==
    LET c1 == apply_financial_fields(ev, c)
        c2 == [c1 EXCEPT !.credit_score =
                    Clamp(@ + ev.credit_score_change, 300 * 100, 850 * 100)]
        c3 == IF ev.stress_change # 0
              THEN [c2 EXCEPT !.stress = Clamp(@ + ev.stress_change, 0, 100)]
              ELSE c2
        c4 == IF ev.health_change # 0
              THEN [c3 EXCEPT !.health = Clamp(@ + ev.health_change, 0, 100)]
              ELSE c3
    IN  IF ev.reputation_change # 0
        THEN [c4 EXCEPT !.reputation = Clamp(@ + ev.reputation_change, 0, 100)]
        ELSE c4

\* LifeEvent.apply: the character afterwards
LifeEvent_apply(ev, c) ==
    LET c1 == [c EXCEPT
                !.stress = Clamp(@ + ev.stress_change, 0, 100),
                !.health = Clamp(@ + ev.health_change, 0, 100),
                !.reputation = Clamp(@ + ev.reputation_change, 0, 100)]
        c2 == apply_financial_fields(ev, c1)
    IN  IF ev.credit_score_change # 0
        THEN [c2 EXCEPT !.credit_score =
                    Clamp(@ + ev.credit_score_change, 300 * 100, 850 * 100)]
        ELSE c2

\* Event.apply, dispatched on the class of the event
apply(ev, c) ==
    IF ev.class = "FinancialEvent" THEN FinancialEvent_apply(ev, c)
    ELSE IF ev.class = "LifeEvent" THEN LifeEvent_apply(ev, c)
    ELSE c

FinancialFields == {"savings", "debt", "income", "investments"}
ScoreFields == {"credit_score", "stress", "health", "reputation"}

\* the delta of the event for a score field
score_change(ev, field) ==
    CASE field = "credit_score" -> ev.credit_score_change
      [] field = "stress" -> ev.stress_change
      [] field = "health" -> ev.health_change
      [] field = "reputation" -> ev.reputation_change

\* the keys of the effects dictionary apply fills
effects_keys(ev) ==
    IF ev.class = "FinancialEvent"
    THEN FinancialFields \cup {"credit_score"} \cup
         { field \in {"stress", "health", "reputation"} :
             score_change(ev, field) # 0 }
    ELSE IF ev.class = "LifeEvent"
    THEN FinancialFields \cup {"stress", "health", "reputation"} \cup
         { field \in {"credit_score"} : score_change(ev, field) # 0 }
    ELSE {}

\* the effects dictionary apply returns
effects(ev, c) ==
    [ field \in effects_keys(ev) |->
        CASE field = "savings" -> resolve_change(ev.savings_change, c.savings)
          [] field = "debt" -> resolve_change(ev.debt_change, c.debt)
          [] field = "income" -> resolve_change(ev.income_change, c.income)
          [] field = "investments" ->
                resolve_change(ev.investment_change, c.investments)
          [] OTHER -> score_change(ev, field) ]

\* get_random_event: the fixed entries of financial_events
base_financial_events ==
    << [FinancialEvent("Car Repair") EXCEPT !.savings_change = IntDelta(-500)],
       [FinancialEvent("Bonus at Work") EXCEPT !.savings_change = IntDelta(1000)],
       [FinancialEvent("Medical Expense") EXCEPT !.savings_change = IntDelta(-800)],
       [FinancialEvent("Tax Refund") EXCEPT !.savings_change = IntDelta(600)],
       [FinancialEvent("Credit Card Fee") EXCEPT !.debt_change = IntDelta(200)] >>

promotion_event ==
    [FinancialEvent("Promotion") EXCEPT !.income_change = FloatDelta(10)]

\* a variant of financial_events whose thresholds are inclusive;
\* PromotionWeight tells the two apart
financial_events_inclusive(c) ==
    IF c.reputation >= 75
    THEN base_financial_events \o
         <<promotion_event, promotion_event, promotion_event>>
    ELSE IF c.reputation >= 50
    THEN Append(base_financial_events, promotion_event)
    ELSE base_financial_events

\* financial_events once the promotion entries are added
financial_events(c) ==
    IF c.reputation > 75
    THEN base_financial_events \o
         <<promotion_event, promotion_event, promotion_event>>
    ELSE IF c.reputation > 50
    THEN Append(base_financial_events, promotion_event)
    ELSE base_financial_events

life_events ==
    << [LifeEvent("Vacation") EXCEPT
            !.stress_change = -20, !.savings_change = IntDelta(-300)],
       [LifeEvent("Flu Season") EXCEPT
            !.health_change = -15, !.stress_change = 10],
       [LifeEvent("Networking Event") EXCEPT !.reputation_change = 10],
       [LifeEvent("Argument at Work") EXCEPT
            !.stress_change = 15, !.reputation_change = -5] >>

\* get_historical_event: the dictionary, in insertion order
historical_events ==
    << <<Date(2007, 2, 27),
         [FinancialEvent("Stock Market Dip") EXCEPT
            !.investment_change = FloatDelta(-5)]>>,
       <<Date(2007, 8, 9),
         [FinancialEvent("BNP Paribas Freezes Funds") EXCEPT
            !.investment_change = FloatDelta(-7)]>>,
       <<Date(2008, 3, 14),
         [FinancialEvent("Bear Stearns Collapse") EXCEPT
            !.investment_change = FloatDelta(-15), !.stress_change = 20]>>,
       <<Date(2008, 9, 15),
         [FinancialEvent("Lehman Brothers Bankruptcy") EXCEPT
            !.investment_change = FloatDelta(-25), !.stress_change = 30]>>,
       <<Date(2008, 10, 3),
         [FinancialEvent("Emergency Economic Stabilization Act") EXCEPT
            !.investment_change = FloatDelta(5)]>>,
       <<Date(2009, 3, 9),
         [FinancialEvent("Market Bottom") EXCEPT
            !.investment_change = FloatDelta(8)]>> >>

\* the entries of the dictionary whose year and month are the date's
historical_matches(date) ==
    { i \in DOMAIN historical_events :
        /\ historical_events[i][1].year = date.year
        /\ historical_events[i][1].month = date.month }

\* get_historical_event: the first matching entry, or None
get_historical_event(date) ==
    IF historical_matches(date) = {} THEN None
    ELSE LET first == CHOOSE i \in historical_matches(date) :
                        \A j \in historical_matches(date) : i <= j
         IN  historical_events[first][2]

\* get_random_event for the outcomes of its random calls: whether
\* random.random() > 0.3, whether the second random.random() < 0.6, and the
\* position random.choice picks in the list it is given.  The result holds the event returned and
\* financial_events as it stands when the function returns.
get_random_event(date, c, no_event, financial, position) ==
    IF no_event THEN [event |-> None, financial_events |-> <<>>]
    ELSE IF get_historical_event(date) # None
    THEN [event |-> get_historical_event(date), financial_events |-> <<>>]
    ELSE LET pool == IF financial THEN financial_events(c) ELSE life_events
         IN  [event |-> pool[position],
              financial_events |-> financial_events(c)]

---------------------------------------------------------------------------
(* src/game.py *)

start_date == Date(2005, 6, 1)
end_date == Date(2009, 6, 1)

MainActions == {"work", "relax", "volunteer"}
SecondaryActions ==
    {"pay_debt", "invest", "casino", "purchase_shares", "sell_shares",
     "check_market"}

NoUse == [extras |-> 0, surges |-> 0]

\* no Character method was called directly
NoCall == [op |-> "none", arg |-> 0, ret |-> 0, count |-> 0]

\* no extra was used
NoExtras(u) == u.extras = 0

InWindow == turn <= ExtrasTurns

\* the turns on which the player follows the fixed policy
Scripted == HorizonTurns < turn /\ turn < max_turns

\* the sessions the exploration follows into the current turn
Followed ==
    \/ InWindow
    \/ NoExtras(used) /\ turn <= HorizonTurns
    \/ used = NoUse

\* Game.__init__ on the character main.select_character returns
InitGame(c) ==
    /\ character = c
    /\ current_date = start_date
    /\ turn = 1
    /\ game_over = FALSE
    /\ monthly_expenses = character.monthly_expenses
    /\ message = "none"
    /\ pc = "loop"
    /\ allow_multiple_actions = FALSE
    /\ main_actions_taken = {}
    /\ base_chance = 0
    /\ choice = "none"
    /\ event_turn = 0
    /\ call = NoCall
    /\ used = NoUse

Init == \E c \in {Hudson, Jane} : InitGame(c)

\* a variant of LoopCondition without the bound on the turn; Terminates
\* tells the two apart
LoopConditionUnbounded == ~game_over

\* Game.start: the loop condition
LoopCondition == ~game_over /\ turn <= max_turns

\* process_player_actions: main_actions_limit
main_actions_limit == IF allow_multiple_actions THEN 2 ELSE 1

\* a variant of process_expenses that adds the shortfall to debt at once
\* instead of deferring it; ExpensesSettled tells the two apart
process_expenses_immediate(c, expenses) ==
    IF c.savings >= expenses
    THEN [c EXCEPT !.savings = @ - expenses]
    ELSE [c EXCEPT !.savings = 0, !.debt = @ + (expenses - c.savings)]

\* a variant of process_expenses that takes the expenses from savings
\* whether they cover them or not; NonNegativeBalances tells the two apart
process_expenses_overdraw(c, expenses) ==
    [c EXCEPT !.savings = @ - expenses]

\* process_expenses: the character after the month's expenses
process_expenses(c, expenses) ==
    IF c.savings >= expenses
    THEN [c EXCEPT !.savings = @ - expenses]
    ELSE [c EXCEPT !.savings = 0, !.pending_debt = expenses - c.savings]

\* play_turn: the trigger probability, in 1/1200
stress_factor(c) == Max(0, (c.stress - 40) * 4)          \* in 1/240
health_factor(c) == Max(0, (80 - c.health) * 3)          \* in 1/240
getattr_volunteer_bonus(c) ==
    IF c.volunteer_bonus = Unset THEN 0 ELSE c.volunteer_bonus
\* a variant of trigger_chance without the cap at 0.6; TriggerChanceRange
\* tells the two apart
trigger_chance_uncapped(c) ==
    240 + 2 * Max(stress_factor(c), health_factor(c))
        + getattr_volunteer_bonus(c)

trigger_chance(c) ==
    Min(720, 240 + 2 * Max(stress_factor(c), health_factor(c))
                 + getattr_volunteer_bonus(c))

\* the values of random.random() the model draws, in 1/1200
RollSamples == {0, 300, 1199}

\* play_turn up to the first prompt of process_player_actions
PlayTurn ==
    /\ pc = "loop"
    /\ LoopCondition
    /\ Followed
    /\ \E roll \in RollSamples :
        LET short == character.savings < monthly_expenses
            late == short /\ turn > 1
            c1 == process_expenses(character, monthly_expenses)
            chance == trigger_chance(c1)
            surge == roll < chance
        IN  /\ late => InWindow /\ used.extras < MaxExtras
            /\ surge => turn <= HorizonTurns /\ used.surges < MaxSurges
            /\ character' = c1
            /\ base_chance' = chance
            /\ allow_multiple_actions' = surge
            /\ used' = [used EXCEPT
                          !.extras = IF late THEN @ + 1 ELSE @,
                          !.surges = IF surge THEN @ + 1 ELSE @]
    /\ main_actions_taken' = {}
    /\ choice' = "none"
    /\ pc' = "actions"
    /\ UNCHANGED <<current_date, turn, game_over, monthly_expenses, message,
                   event_turn, call>>

\* the fixed policy of the scripted turns
ScriptedChoice(c) == IF c.stress <= 90 THEN "work" ELSE "relax"

\* process_player_actions: a main action is on the menu
Offered(action) ==
    /\ pc = "actions"
    /\ Cardinality(main_actions_taken) < main_actions_limit
    /\ action \notin main_actions_taken
    /\ Scripted => action = ScriptedChoice(character)

\* process_player_actions: after a main action the loop breaks when the limit
\* is reached
AfterMain(action) ==
    /\ main_actions_taken' = main_actions_taken \cup {action}
    /\ choice' = action
    /\ pc' = IF Cardinality(main_actions_taken \cup {action}) >= main_actions_limit
             THEN "check" ELSE "actions"
    /\ UNCHANGED <<current_date, turn, game_over, message,
                   allow_multiple_actions, base_chance, event_turn, call>>

ActionWork ==
    /\ Offered("work")
    /\ character' = work(character)
    /\ AfterMain("work")
    /\ UNCHANGED <<monthly_expenses, used>>

\* a variant of action_relax without the early return at stress <= 10;
\* MainActionsOnce tells the two apart
action_relax_always(c) == relax(c)

action_relax(c) == IF c.stress <= 10 THEN c ELSE relax(c)

ActionRelax ==
    /\ Offered("relax")
    /\ character' = action_relax(character)
    /\ AfterMain("relax")
    /\ UNCHANGED <<monthly_expenses, used>>

\* a variant of action_volunteer_expenses that takes the reduction twice;
\* VolunteerEffects tells the two apart
action_volunteer_expenses_twice(expenses) ==
    LET expense_reduction == expenses \div 10
    IN  Max(0, expenses - 2 * expense_reduction)

action_volunteer_expenses(expenses) ==
    LET expense_reduction == expenses \div 10
    IN  Max(0, expenses - expense_reduction)

action_volunteer_character(c) ==
    [c EXCEPT !.risk_rating = Max(10, @ - 5), !.volunteer_bonus = 120]

ActionVolunteer ==
    /\ Offered("volunteer")
    /\ InWindow
    /\ used.extras < MaxExtras
    /\ monthly_expenses' = action_volunteer_expenses(monthly_expenses)
    /\ character' = action_volunteer_character(character)
    /\ used' = [used EXCEPT !.extras = @ + 1]
    /\ AfterMain("volunteer")

\* process_player_actions: a secondary action is on the menu
Secondary(name) ==
    /\ pc = "actions"
    /\ Cardinality(main_actions_taken) < main_actions_limit
    /\ InWindow
    /\ name \in SecondaryActions
    /\ UNCHANGED <<current_date, turn, game_over, monthly_expenses, message,
                   allow_multiple_actions, main_actions_taken, base_chance, choice,
                   event_turn, call>>

EndTurn ==
    /\ pc = "actions"
    /\ Cardinality(main_actions_taken) < main_actions_limit
    /\ ~Scripted
    /\ choice' = "end_turn"
    /\ pc' = "check"
    /\ UNCHANGED <<character, current_date, turn, game_over, monthly_expenses,
                   message, allow_multiple_actions, main_actions_taken, base_chance,
                   event_turn, call, used>>

\* int(x) of an amount of money: whole dollars, in cents
IntDollars(x) == (x \div 100) * 100

\* action_pay_debt: the character after the prompt is answered with payment
action_pay_debt(c, payment) ==
    LET max_payment == Min(c.savings, c.debt)
        capped == Min(payment, max_payment)
    IN  IF c.debt <= 0 THEN c
        ELSE IF max_payment <= 0 THEN c
        ELSE IF capped <= 0 THEN c
        ELSE pay_debt(c, capped)

\* the answers to "How much would you like to pay?" the model draws: the
\* default int(max_payment), 1000 dollars and 0
PaymentInputs(c) == {IntDollars(Min(c.savings, c.debt)), 1000 * 100, 0}

ActionPayDebt ==
    /\ Secondary("pay_debt")
    /\ \E payment \in PaymentInputs(character) :
        LET c1 == action_pay_debt(character, payment)
            paid == c1 # character
        IN  /\ paid => used.extras < MaxExtras
            /\ character' = c1
            /\ used' = [used EXCEPT !.extras = IF paid THEN @ + 1 ELSE @]
    /\ pc' = "actions"

\* action_invest: the risk_rating change of each standard investment type
InvestTypes ==
    [day_trading |-> 20, option_day_trading |-> 40, short_the_market |-> 30]

\* a variant of action_invest_standard without the clamp of risk_rating;
\* RiskRatingInRange tells the two apart
action_invest_unclamped(c, risk_change, amount) ==
    LET capped == Min(amount, c.savings)
        c1 == invest(c, capped)
    IN  IF c.savings <= 0 THEN c
        ELSE IF capped <= 0 THEN c
        ELSE [c1 EXCEPT !.risk_rating = @ + risk_change]

\* action_invest, standard investment: the character after the prompt is
\* answered with amount; without savings or with amount <= 0 nothing is done
action_invest_standard(c, risk_change, amount) ==
    LET capped == Min(amount, c.savings)
        c1 == invest(c, capped)
    IN  IF c.savings <= 0 THEN c
        ELSE IF capped <= 0 THEN c
        ELSE [c1 EXCEPT !.risk_rating = Min(100, Max(10, @ + risk_change))]

\* the answers to "How much would you like to invest?" the model draws: the
\* default int(savings / 2), and more than there is
InvestInputs(c) == {IntDollars(c.savings \div 2), IntDollars(c.savings) + 100}

ActionInvest ==
    /\ Secondary("invest")
    /\ \E type \in DOMAIN InvestTypes : \E amount \in InvestInputs(character) :
        LET c1 == action_invest_standard(character, InvestTypes[type], amount)
            traded == c1 # character
        IN  /\ traded => used.extras < MaxExtras
            /\ character' = c1
            /\ used' = [used EXCEPT !.extras = IF traded THEN @ + 1 ELSE @]
    /\ pc' = "actions"

\* a variant of show_casino for which one of the two conditions is enough;
\* CasinoRule tells the two apart
show_casino_either(c) == c.risk_rating > 70 \/ c.debt > 10000 * 100

\* action_invest: the casino is on the menu
show_casino(c) == c.risk_rating > 70 /\ c.debt > 10000 * 100

\* action_invest, casino: the character after a bet of amount
action_invest_casino(c, amount, win) ==
    LET capped == Min(amount, c.savings)
        winnings == capped * 2
    IN  IF c.savings <= 0 THEN c
        ELSE IF capped <= 0 THEN c
        ELSE IF win THEN [c EXCEPT !.savings = @ - capped + winnings]
        ELSE [c EXCEPT !.savings = @ - capped]

\* the answers to "How much would you like to bet?" the model draws: the
\* default int(savings), and 100 dollars
BetInputs(c) == {IntDollars(c.savings), 100 * 100}

ActionCasino ==
    /\ Secondary("casino")
    /\ show_casino(character)
    /\ used.extras < MaxExtras
    /\ \E amount \in BetInputs(character) : \E win \in BOOLEAN :
        character' = action_invest_casino(character, amount, win)
    /\ used' = [used EXCEPT !.extras = @ + 1]
    /\ pc' = "actions"

\* action_invest, "Purchase shares": the prices of the instruments, in cents
market_prices == [stocks |-> 100 * 100, bonds |-> 95 * 100]

\* action_invest, "Purchase shares": max_shares
max_shares(c, investment_type) == c.savings \div market_prices[investment_type]

\* "Purchase shares" returns when no share is affordable; otherwise it calls
\* Character.buy_shares, which Character does not define: the AttributeError
\* leaves Game.start and main reports it
ActionPurchaseShares ==
    /\ Secondary("purchase_shares")
    /\ \E investment_type \in DOMAIN market_prices :
        pc' = IF max_shares(character, investment_type) = 0
              THEN "actions" ELSE "error"
    /\ UNCHANGED <<character, used>>

\* "Sell shares" reads Character.investments_dict, which Character does not
\* define
ActionSellShares ==
    /\ Secondary("sell_shares")
    /\ pc' = "error"
    /\ UNCHANGED <<character, used>>

\* action_check_market only displays
ActionCheckMarket ==
    /\ Secondary("check_market")
    /\ pc' = "actions"
    /\ UNCHANGED <<character, used>>

\* Game.start: the check after play_turn; the locals of play_turn are gone
LostHealth(c) == c.health <= 0

\* a variant of LostBankruptcy with inclusive thresholds; BankruptcyRule tells
\* the two apart
LostBankruptcyInclusive(c) ==
    c.debt >= 50000 * 100 /\ c.credit_score <= 500 * 100

LostBankruptcy(c) == c.debt > 50000 * 100 /\ c.credit_score < 500 * 100

TerminationCheck ==
    /\ pc = "check"
    /\ IF LostHealth(character)
       THEN game_over' = TRUE /\ message' = "health"
       ELSE IF LostBankruptcy(character)
       THEN game_over' = TRUE /\ message' = "bankrupt"
       ELSE UNCHANGED <<game_over, message>>
    /\ pc' = "advance"
    /\ allow_multiple_actions' = FALSE
    /\ main_actions_taken' = {}
    /\ base_chance' = 0
    /\ choice' = "none"
    /\ UNCHANGED <<character, current_date, turn, monthly_expenses, event_turn, call,
                   used>>

\* a variant of flush_pending_debt that adds the pending debt to the debt
\* and does not reset it; PendingDebtFlushed tells the two apart
flush_pending_debt_kept(c) ==
    IF c.pending_debt # Unset /\ c.pending_debt > 0
    THEN [c EXCEPT !.debt = @ + c.pending_debt]
    ELSE c

\* advance_turn, statement by statement
flush_pending_debt(c) ==
    IF c.pending_debt # Unset /\ c.pending_debt > 0
    THEN [c EXCEPT !.debt = @ + c.pending_debt, !.pending_debt = 0]
    ELSE c

update_investments(c, base_return) ==
    IF c.investments > 0
    THEN [c EXCEPT !.investments =
            calculate_investment_return(c.investments, c.risk_rating, base_return)]
    ELSE c

apply_interest(c) ==
    IF c.debt > 0
    THEN [c EXCEPT !.debt = @ + MulDiv(c.debt, 15, 1000)]
    ELSE c

\* a variant of advance_turn that charges the interest before the pending
\* debt is flushed; AdvanceOrder tells the two apart
advance_turn_interest_first(c, base_return) ==
    flush_pending_debt(update_investments(apply_interest(c), base_return))

advance_turn(c, base_return) ==
    apply_interest(update_investments(flush_pending_debt(c), base_return))

AdvanceTurnStep ==
    /\ pc = "advance"
    /\ \E base_return \in ReturnSamples(current_date) :
        LET shock == character.investments > 0 /\ base_return # 0
        IN  /\ shock => InWindow /\ used.extras < MaxExtras
            /\ character.investments <= 0 => base_return = 0
            /\ character' = advance_turn(character, base_return)
            /\ used' = [used EXCEPT !.extras = IF shock THEN @ + 1 ELSE @]
    /\ current_date' = add_one_month(current_date)
    /\ turn' = turn + 1
    /\ pc' = "loop"
    /\ UNCHANGED <<game_over, monthly_expenses, message, allow_multiple_actions,
                   main_actions_taken, base_chance, choice, event_turn, call>>

\* a variant of AdvanceTurn without the "if not self.game_over";
\* CheckBeforeAdvance tells the two apart
AdvanceTurnAlways == AdvanceTurnStep

\* Game.start: "if not self.game_over: self.advance_turn()"
AdvanceTurn == ~game_over /\ AdvanceTurnStep

SkipAdvance ==
    /\ pc = "advance"
    /\ game_over
    /\ pc' = "loop"
    /\ UNCHANGED <<character, current_date, turn, game_over, monthly_expenses,
                   message, allow_multiple_actions, main_actions_taken, base_chance,
                   choice, event_turn, call, used>>

\* Game.start: the loop ends; the final panel when the game is not over
Finish ==
    /\ pc = "loop"
    /\ ~LoopCondition
    /\ pc' = "done"
    /\ message' = IF game_over THEN message
                  ELSE IF get_net_worth(character) > 0 THEN "survived_positive"
                  ELSE "survived_negative"
    /\ UNCHANGED <<character, current_date, turn, game_over, monthly_expenses,
                   allow_multiple_actions, main_actions_taken, base_chance, choice,
                   event_turn, call, used>>

Next ==
    \/ PlayTurn
    \/ ActionWork
    \/ ActionRelax
    \/ ActionVolunteer
    \/ ActionPayDebt
    \/ ActionInvest
    \/ ActionPurchaseShares
    \/ ActionSellShares
    \/ ActionCheckMarket
    \/ EndTurn
    \/ TerminationCheck
    \/ AdvanceTurn
    \/ SkipAdvance
    \/ Finish

Spec == Init /\ [][Next]_vars

\* ---------------------------------------------------------------------------
\* The sessions of Hudson and Jane under fairness.  Whatever runs without
\* waiting for the player (play_turn up to the prompt, the check, advance_turn,
\* the end of Game.start) does run; the player's choices are under no
\* fairness condition.  The player's menu is cut down to Work, Relax, Check
\* market trends, Purchase shares and End turn.

NextLive ==
    \/ PlayTurn
    \/ ActionWork
    \/ ActionRelax
    \/ ActionPurchaseShares
    \/ ActionCheckMarket
    \/ EndTurn
    \/ TerminationCheck
    \/ AdvanceTurn
    \/ SkipAdvance
    \/ Finish

SpecLive ==
    /\ Init
    /\ [][NextLive]_vars
    /\ WF_vars(PlayTurn)
    /\ WF_vars(TerminationCheck)
    /\ WF_vars(AdvanceTurn)
    /\ WF_vars(SkipAdvance)
    /\ WF_vars(Finish)

\* ---------------------------------------------------------------------------
\* One turn of a session on a character other than the two presets.  Game
\* accepts any Character; the presets never reach the bankruptcy thresholds or
\* the casino, so the first turn is also explored from characters built at
\* the thresholds.

\* a Character with credit_score, health and stress set after Character.__init__,
\* as Hudson.__init__ and Jane.__init__ set them
CustomCharacter(savings, debt, risk_rating, credit_score, health, stress) ==
    [Character("Custom", savings, debt, 62000 * 100, risk_rating) EXCEPT
        !.credit_score = credit_score, !.health = health, !.stress = stress]

CustomCharacters ==
    { CustomCharacter(savings, debt, risk_rating, credit_score, health, stress) :
        savings \in {0, 6500 * 100},
        debt \in {0, 12000 * 100, 50000 * 100, 50000 * 100 + 1},
        risk_rating \in {55, 80},
        credit_score \in {500 * 100 - 1, 500 * 100, 720 * 100},
        health \in {0, 25, 80},
        stress \in {50, 100} }

InitTurn == \E c \in CustomCharacters : InitGame(c)

NextTurn ==
    \/ turn = 1 /\ PlayTurn
    \/ ActionWork
    \/ ActionRelax
    \/ ActionVolunteer
    \/ ActionPayDebt
    \/ ActionInvest
    \/ ActionCasino
    \/ ActionPurchaseShares
    \/ ActionSellShares
    \/ ActionCheckMarket
    \/ EndTurn
    \/ TerminationCheck
    \/ AdvanceTurn
    \/ SkipAdvance
    \/ Finish

SpecTurn == InitTurn /\ [][NextTurn]_vars

\* ---------------------------------------------------------------------------
\* The methods of Character, and Game.action_volunteer and
\* Game.process_expenses, called directly, one after the other, on the two
\* presets and on characters at the edges of the ranges, and Game.play_turn
\* called once on the Game so prepared, up to its first prompt; Game.start is
\* not running.

MaxCalls == 2           \* direct calls in a row

\* the arguments of pay_debt and invest the model draws, in cents
AmountInputs == {-100 * 100, 0, 3000 * 100, 10000 * 100}

OpsCharacters ==
    {Hudson, Jane} \cup
    { CustomCharacter(savings, debt, 55, credit_score, health, stress) :
        savings \in {0, 2000 * 100, 6500 * 100},
        debt \in {0, 150, 8000 * 100},
        credit_score \in {680 * 100, 850 * 100 - 50, 850 * 100},
        health \in {5, 25, 98, 100},
        stress \in {0, 10, 90, 95, 100} }
    \cup
    { CustomCharacter(6500 * 100, 0, risk_rating, 720 * 100, 80, 45) :
        risk_rating \in {10, 12} }

InitOps == \E c \in OpsCharacters : InitGame(c)

\* the record of one more direct call
Called(op, arg, ret) ==
    [op |-> op, arg |-> arg, ret |-> ret, count |-> call.count + 1]

\* no Game method runs during a direct call
GameUntouched ==
    UNCHANGED <<current_date, turn, game_over, monthly_expenses, message, pc,
                allow_multiple_actions, main_actions_taken, base_chance,
                choice, event_turn, used>>

CallWork ==
    /\ call.count < MaxCalls
    /\ character' = work(character)
    /\ call' = Called("work", 0, get_monthly_income(character))
    /\ GameUntouched

CallRelax ==
    /\ call.count < MaxCalls
    /\ character' = relax(character)
    /\ call' = Called("relax", 0, relax_stress_reduction(character))
    /\ GameUntouched

CallPayDebt ==
    /\ call.count < MaxCalls
    /\ \E amount \in AmountInputs :
        /\ character' = pay_debt(character, amount)
        /\ call' = Called("pay_debt", amount,
                          pay_debt_payment(character, amount))
    /\ GameUntouched

CallInvest ==
    /\ call.count < MaxCalls
    /\ \E amount \in AmountInputs :
        /\ character' = invest(character, amount)
        /\ call' = Called("invest", amount, invest_amount(character, amount))
    /\ GameUntouched

\* game.action_volunteer()
CallVolunteer ==
    /\ call.count < MaxCalls
    /\ monthly_expenses' = action_volunteer_expenses(monthly_expenses)
    /\ character' = action_volunteer_character(character)
    /\ call' = Called("action_volunteer", 0, 0)
    /\ UNCHANGED <<current_date, turn, game_over, message, pc,
                   allow_multiple_actions, main_actions_taken, base_chance,
                   choice, event_turn, used>>

\* game.process_expenses()
CallProcessExpenses ==
    /\ call.count < MaxCalls
    /\ character' = process_expenses(character, monthly_expenses)
    /\ call' = Called("process_expenses", 0, 0)
    /\ GameUntouched

\* game.play_turn() on the Game the direct calls have prepared, up to its
\* first prompt
CallPlayTurn ==
    /\ call.count = MaxCalls
    /\ PlayTurn

NextOps ==
    \/ CallWork
    \/ CallRelax
    \/ CallPayDebt
    \/ CallInvest
    \/ CallVolunteer
    \/ CallProcessExpenses
    \/ CallPlayTurn

SpecOps == InitOps /\ [][NextOps]_vars

\* ---------------------------------------------------------------------------
\* Events applied directly to characters that satisfy the invariants, and
\* get_random_event called directly; no Game is running (Game imports
\* get_random_event and never calls it).

MaxEventCalls == 2      \* direct calls in a row

\* events outside the catalog, with deltas at and around -1 and 1 and with
\* deltas on the credit score
ProbeEvents ==
    { [FinancialEvent("Probe") EXCEPT
            !.savings_change = delta, !.debt_change = delta,
            !.income_change = delta, !.investment_change = delta,
            !.credit_score_change = delta.value] :
        delta \in {FloatDelta(-100), FloatDelta(-50), FloatDelta(0),
                   FloatDelta(50), FloatDelta(100), IntDelta(1)} }
    \cup
    { [LifeEvent("Probe") EXCEPT
            !.savings_change = delta, !.investment_change = delta,
            !.credit_score_change = delta.value] :
        delta \in {FloatDelta(50), FloatDelta(100), IntDelta(0)} }

\* the random pool and the historical calendar
Catalog ==
    { base_financial_events[i] : i \in DOMAIN base_financial_events }
    \cup {promotion_event}
    \cup { life_events[i] : i \in DOMAIN life_events }
    \cup { historical_events[i][2] : i \in DOMAIN historical_events }

\* the presets, and characters at the low and at the high ends of the
\* ranges, every one within the ranges
EventCharacters ==
    {Hudson, Jane} \cup
    { [CustomCharacter(savings, 8000 * 100, 55, 300 * 100, 10, 95)
            EXCEPT !.investments = 0, !.reputation = reputation] :
        savings \in {0, 200 * 100}, reputation \in {3, 50, 51} }
    \cup
    { [CustomCharacter(savings, 8000 * 100, 55, 850 * 100 - 50, 100, 0)
            EXCEPT !.investments = 1000 * 100, !.reputation = reputation] :
        savings \in {0, 6500 * 100}, reputation \in {75, 76, 95} }

\* dates get_random_event is called on: two months of the calendar and two
\* outside it
EventDates ==
    {start_date, Date(2007, 2, 1), Date(2008, 9, 1), Date(2008, 11, 1)}

InitEvents == \E c \in EventCharacters : InitGame(c)

\* event.apply(character); the call record keeps the event, a copy of the
\* character taken before the call, and the effects returned
ApplyEvent ==
    /\ call.count < MaxEventCalls
    /\ \E ev \in Catalog \cup ProbeEvents :
        /\ character' = apply(ev, character)
        /\ call' = Called("apply", [event |-> ev, entity |-> character],
                          effects(ev, character))
    /\ GameUntouched

\* a variant of ApplyToCopy in which a random draw decides whether the score
\* fields of the copy move; AppliedAlike tells the two apart
ApplyToCopyRolled ==
    /\ call.op = "apply"
    /\ \E roll \in BOOLEAN :
        LET after == apply(call.arg.event, call.arg.entity)
        IN  call' = [op |-> "apply_copy", arg |-> call.arg,
                     ret |-> [entity |-> IF roll THEN after
                                         ELSE [after EXCEPT
                                            !.stress = call.arg.entity.stress,
                                            !.savings = call.arg.entity.savings],
                              effects |-> effects(call.arg.event,
                                                  call.arg.entity)],
                     count |-> call.count + 1]
    /\ UNCHANGED character
    /\ GameUntouched

\* the event of the last call applied to the copy taken before that call
ApplyToCopy ==
    /\ call.op = "apply"
    /\ call' = [op |-> "apply_copy", arg |-> call.arg,
                ret |-> [entity |-> apply(call.arg.event, call.arg.entity),
                         effects |-> effects(call.arg.event, call.arg.entity)],
                count |-> call.count + 1]
    /\ UNCHANGED character
    /\ GameUntouched

\* get_random_event(date, character)
CallGetRandomEvent ==
    /\ call.count < MaxEventCalls
    /\ \E date \in EventDates, no_event \in BOOLEAN, financial \in BOOLEAN,
          position \in 1 .. Len(financial_events(character)) :
        /\ position <= Len(IF financial THEN financial_events(character)
                           ELSE life_events)
        /\ call' = Called("get_random_event",
                          [date |-> date, entity |-> character],
                          get_random_event(date, character, no_event,
                                           financial, position))
    /\ UNCHANGED character
    /\ GameUntouched

NextEvents ==
    \/ ApplyEvent
    \/ ApplyToCopy
    \/ CallGetRandomEvent

SpecEvents == InitEvents /\ [][NextEvents]_vars

\* ---------------------------------------------------------------------------
\* The functions of src/market.py and add_one_month called directly on the
\* dates of a session and on dates at the edges of the windows, of the
\* sentiment periods and of the months; no Game is running.

MaxMonths == 47         \* calls of add_one_month in a row

\* Game.start: current_date on turn n of a session, the first of the month
\* n - 1 months after June 2005
TurnDate(n) == Date(2005 + ((n + 4) \div 12), ((n + 4) % 12) + 1, 1)

\* get_market_sentiment: the strings it returns, from the earliest period on
Sentiments ==
    << "Housing market booming, confidence high",
       "Housing prices leveling off, but markets strong",
       "Concerns about subprime mortgages, market volatile",
       "Serious financial instability, Bear Stearns bailout",
       "Financial crisis in full effect, panic in markets",
       "Markets beginning to stabilize, signs of recovery" >>

\* the position in Sentiments of the string returned for the date
SentimentRank(date) ==
    CHOOSE i \in DOMAIN Sentiments : Sentiments[i] = get_market_sentiment(date)

\* the first date of a session, the days at and next to the edges of the
\* three windows of calculate_investment_return and of the five boundaries of
\* get_market_sentiment, and month ends before short months, a year end and
\* the Februaries of 2000 and 2100
MarketDates ==
    { start_date,
      Date(2008, 7, 17), Date(2008, 7, 18), Date(2008, 11, 13), Date(2008, 11, 14),
      Date(2007, 9, 9), Date(2007, 9, 10), Date(2007, 11, 7), Date(2007, 11, 8),
      Date(2008, 1, 29), Date(2008, 1, 30), Date(2008, 4, 27), Date(2008, 4, 28),
      Date(2006, 3, 31), Date(2006, 4, 1), Date(2007, 1, 31), Date(2007, 2, 1),
      Date(2008, 3, 13), Date(2008, 3, 14), Date(2008, 9, 14), Date(2008, 9, 15),
      Date(2009, 3, 8), Date(2009, 3, 9),
      Date(2008, 1, 31), Date(2007, 12, 31), Date(2008, 3, 31),
      Date(2100, 1, 31), Date(2000, 1, 31) }

\* the amounts invested the model draws, in cents: multiples of 100 dollars,
\* whose returns are whole cents
InvestedAmounts == {100 * 100, 1000 * 100, 6500 * 100}

\* the risk ratings the model draws, in tenths
RiskRatings == {10, 20, 55, 100}

InitMarket ==
    \E date \in MarketDates :
        /\ character = Hudson
        /\ current_date = date
        /\ turn = 1
        /\ game_over = FALSE
        /\ monthly_expenses = Hudson.monthly_expenses
        /\ message = "none"
        /\ pc = "loop"
        /\ allow_multiple_actions = FALSE
        /\ main_actions_taken = {}
        /\ base_chance = 0
        /\ choice = "none"
        /\ event_turn = 0
        /\ call = NoCall
        /\ used = NoUse

\* no Game method runs and no character changes during a call on a date
DateCall ==
    /\ call.op \in {"none", "add_one_month"}
    /\ UNCHANGED <<character, turn, game_over, monthly_expenses, message, pc,
                   allow_multiple_actions, main_actions_taken, base_chance,
                   choice, event_turn, used>>

\* current_date = add_one_month(current_date)
CallAddOneMonth ==
    /\ DateCall
    /\ call.count < MaxMonths
    /\ current_date' = add_one_month(current_date)
    /\ call' = Called("add_one_month", current_date,
                      add_one_month(current_date))

\* calculate_investment_return(amount, risk_rating, current_date); the call
\* record keeps new_amount together with the range and the base_return drawn
CallInvestmentReturn ==
    /\ DateCall
    /\ \E amount \in InvestedAmounts, risk_rating \in RiskRatings,
          base_return \in ReturnSamples(current_date) :
        call' = Called("calculate_investment_return",
                       [amount |-> amount, risk_rating |-> risk_rating,
                        current_date |-> current_date],
                       [new_amount |-> calculate_investment_return(
                                           amount, risk_rating, base_return),
                        range |-> ReturnRange(current_date),
                        base_return |-> base_return])
    /\ UNCHANGED current_date

\* get_market_sentiment(current_date)
CallMarketSentiment ==
    /\ DateCall
    /\ call' = Called("get_market_sentiment", current_date,
                      get_market_sentiment(current_date))
    /\ UNCHANGED current_date

NextMarket ==
    \/ CallAddOneMonth
    \/ CallInvestmentReturn
    \/ CallMarketSentiment

SpecMarket == InitMarket /\ [][NextMarket]_vars

\* ---------------------------------------------------------------------------
\* Properties

\* the session has stopped: Game.start returned, or an exception left it
Stopped == pc \in {"done", "error"}

\* C1: advance_turn first adds a positive pending_debt to debt and resets it to
\* 0, applies the investment return, then adds 1.5% interest computed on the
\* debt that already contains the flushed amount, then moves current_date one
\* month on and turn one up.
AdvanceOrder ==
    [][(pc = "advance" /\ ~game_over /\ pc' = "loop") =>
        LET pending == IF character.pending_debt = Unset THEN 0
                       ELSE character.pending_debt
            flushed == character.debt + pending
        IN  /\ character'.pending_debt =
                   IF pending > 0 THEN 0 ELSE character.pending_debt
            /\ character'.debt =
                   IF flushed > 0 THEN flushed + (flushed * 15) \div 1000
                   ELSE flushed
            /\ IF character.investments > 0
               THEN \E base_return \in ReturnSamples(current_date) :
                       character'.investments =
                           calculate_investment_return(character.investments,
                               character.risk_rating, base_return)
               ELSE character'.investments = character.investments
            /\ current_date' =
                   IF current_date.month = 12
                   THEN [current_date EXCEPT !.year = @ + 1, !.month = 1]
                   ELSE [current_date EXCEPT !.month = @ + 1]
            /\ turn' = turn + 1]_vars

\* Jane after her first advance_turn: the shortfall of 1333.33 was flushed
\* into the debt of 8000 and the interest charged on the sum
AdvanceOrderWitness ==
    /\ pc = "loop"
    /\ turn = 2
    /\ character.name = "Jane"
    /\ character.pending_debt = 0
    /\ character.debt = 947332

\* C2: the termination check runs after play_turn and before advance_turn; a
\* check that ends the game leaves the character, the date and the turn as
\* they are, and advance_turn does not run on that turn: no flush, no return,
\* no interest.
CheckBeforeAdvance ==
    [][/\ pc' = "check" => pc \in {"actions", "check"}
       /\ pc = "check" =>
              /\ pc' \in {"check", "advance"}
              /\ character' = character
              /\ current_date' = current_date
              /\ turn' = turn
       /\ (pc' = "advance" /\ pc # "advance") => pc = "check"
       /\ (pc = "advance" /\ game_over) =>
              /\ character' = character
              /\ current_date' = current_date
              /\ turn' = turn]_vars

\* a session ended by the check on a turn with a shortfall: back at the loop
\* the shortfall is still pending and the debt carries no interest
CheckBeforeAdvanceWitness ==
    /\ pc = "loop"
    /\ game_over
    /\ turn = 1
    /\ character.pending_debt > 0
    /\ character.debt = 12000 * 100

\* C3: once health is at 0 or below during a turn's action phase the turn ends
\* in the health loss: nothing in the rest of the phase, a second main action
\* of a surge turn included, brings it back above 0, the check ends the game
\* with the health message and no settlement follows.
HealthLossEndsTurn ==
    [][/\ (pc = "actions" /\ character.health <= 0) => character'.health <= 0
       /\ (pc = "check" /\ character.health <= 0) =>
              (game_over' /\ message' = "health")
       /\ (pc = "advance" /\ message = "health") =>
              (character' = character /\ turn' = turn)]_vars

\* C4: a session that stops with no loss fired has played its 48 turns: turn
\* is 49 and game_over is False, whatever the sign of the net worth and
\* whatever the player chose on the way.
CompletedAfter48Turns ==
    (Stopped /\ ~game_over) =>
        /\ pc = "done"
        /\ turn = 49
        /\ message \in {"survived_positive", "survived_negative"}

\* C5: the check ends the session as a bankruptcy exactly when health > 0,
\* debt > 50000 and credit_score < 500, both limits strict, and as a health
\* loss exactly when health <= 0, whatever the debt and the credit score.
BankruptcyRule ==
    [][pc = "check" =>
        LET bankrupt == /\ character.health > 0
                        /\ character.debt > 5000000
                        /\ character.credit_score < 50000
        IN  /\ (game_over' /\ message' = "bankrupt") <=> bankrupt
            /\ (game_over' /\ message' = "health") <=> character.health <= 0
            /\ game_over' <=> (bankrupt \/ character.health <= 0)]_vars

\* a session ended as a bankruptcy one cent above the debt limit and one
\* hundredth of a point below the credit limit
BankruptcyRuleWitness ==
    /\ game_over
    /\ message = "bankrupt"
    /\ character.health > 0
    /\ character.debt = 50000 * 100 + 1
    /\ character.credit_score = 500 * 100 - 1

\* C6: a session that has stopped is in exactly one of the three terminal
\* states (health loss, bankruptcy, completed); game_over once set stays set,
\* and from then on no play_turn and no advance_turn runs: the character, the
\* date and the turn keep their values.
TerminalStates ==
    /\ [](Stopped =>
            LET LostHealthState == pc = "done" /\ game_over /\ message = "health"
                LostBankruptcyState ==
                    pc = "done" /\ game_over /\ message = "bankrupt"
                CompletedState == pc = "done" /\ ~game_over /\ turn > max_turns
            IN  \/ LostHealthState /\ ~LostBankruptcyState /\ ~CompletedState
                \/ ~LostHealthState /\ LostBankruptcyState /\ ~CompletedState
                \/ ~LostHealthState /\ ~LostBankruptcyState /\ CompletedState)
    /\ [][game_over =>
            /\ game_over'
            /\ pc' \notin {"actions", "check"}
            /\ character' = character
            /\ current_date' = current_date
            /\ turn' = turn]_vars

\* C7: process_expenses takes monthly_expenses from savings when they cover
\* them and touches nothing else; otherwise savings become 0, pending_debt
\* becomes the shortfall, and debt stays as it is; the shortfall stays pending
\* through the action phase and the check, until advance_turn.
ExpensesSettled ==
    [][/\ (pc = "loop" /\ pc' = "actions") =>
              IF character.savings >= monthly_expenses
              THEN character' =
                       [character EXCEPT !.savings = @ - monthly_expenses]
              ELSE character' =
                       [character EXCEPT
                           !.savings = 0,
                           !.pending_debt = monthly_expenses - character.savings]
       /\ pc \in {"actions", "check"} =>
              character'.pending_debt = character.pending_debt]_vars

\* Jane in her first action phase: savings of 2000 against expenses of
\* 3333.33 leave 1333.33 pending and the debt at 8000
ExpensesSettledWitness ==
    /\ pc = "actions"
    /\ turn = 1
    /\ character.name = "Jane"
    /\ character.savings = 0
    /\ character.pending_debt = 133333
    /\ character.debt = 8000 * 100

\* C8: in every turn an event has been resolved by get_random_event, after
\* the expenses and before the player acts.
EventResolvedEachTurn == pc = "actions" => event_turn = turn

\* C9: the volunteer bonus lasts one turn: in the action phase of a turn the
\* bonus is 0 again unless Volunteer was chosen in that same phase.
VolunteerBonusConsumed ==
    (pc = "actions" /\ "volunteer" \notin main_actions_taken) =>
        character.volunteer_bonus \in {Unset, 0}

\* C10: a phase holds at most 1 main action without a surge and at most 2
\* with one; a secondary action leaves the budget and the phase as they are;
\* the phase ends only into the check, and only with the budget used up or
\* on End turn, and it does end once the budget is used up.
MainActionBudget ==
    /\ [](/\ ~allow_multiple_actions => Cardinality(main_actions_taken) <= 1
          /\ allow_multiple_actions => Cardinality(main_actions_taken) <= 2
          /\ (pc = "actions" /\ ~allow_multiple_actions) => main_actions_taken = {}
          /\ (pc = "actions" /\ allow_multiple_actions) =>
                 Cardinality(main_actions_taken) <= 1)
    /\ [][pc = "actions" =>
            /\ (choice' = choice /\ character' # character) =>
                   /\ pc' = "actions"
                   /\ main_actions_taken' = main_actions_taken
                   /\ allow_multiple_actions' = allow_multiple_actions
            /\ pc' # "actions" =>
                   /\ pc' = "check"
                   /\ \/ choice' = "end_turn"
                      \/ Cardinality(main_actions_taken') =
                             IF allow_multiple_actions THEN 2 ELSE 1]_vars

\* C11: in every state of a session of Hudson or Jane savings, debt and
\* investments are at least 0.
NonNegativeBalances ==
    /\ character.savings >= 0
    /\ character.debt >= 0
    /\ character.investments >= 0

\* a session at the edge: everything was invested, the month's expenses are
\* not covered and wait as pending debt
NonNegativeBalancesWitness ==
    /\ character.savings = 0
    /\ character.investments > 0
    /\ character.pending_debt # Unset
    /\ character.pending_debt > 0

\* C12: after any operation on the character stress, health and reputation
\* lie in 0..100 and credit_score in 300..850.
AttributesInRange ==
    /\ 0 <= character.stress /\ character.stress <= 100
    /\ 0 <= character.health /\ character.health <= 100
    /\ 0 <= character.reputation /\ character.reputation <= 100
    /\ 300 * 100 <= character.credit_score
    /\ character.credit_score <= 850 * 100

Calls(op) == call'.count = call.count + 1 /\ call'.op = op

\* a step in which Character.work runs, directly or through action_work
WorkDone ==
    \/ Calls("work")
    \/ /\ pc = "actions"
       /\ "work" \notin main_actions_taken
       /\ "work" \in main_actions_taken'

\* C14: work adds income / 12 to savings, sets stress to min(100, stress + 10),
\* returns income / 12 and leaves every other field but health as it was; on
\* Hudson one call gives savings 6500 + 62000 / 12 and stress 55.
WorkCredited ==
    [][Calls("work") =>
        LET earned == character.income \div 12
        IN  /\ character' = [character EXCEPT
                                !.savings = @ + earned,
                                !.stress = IF @ + 10 > 100 THEN 100 ELSE @ + 10,
                                !.health = character'.health]
            /\ call'.ret = earned
            /\ character = Hudson =>
                   /\ character'.savings = 6500 * 100 + 516666
                   /\ character'.stress = 55]_vars

\* Hudson after one call of work
WorkCreditedWitness ==
    /\ call.op = "work"
    /\ call.count = 1
    /\ call.ret = 516666
    /\ character.name = "Hudson"
    /\ character.savings = 1166666
    /\ character.stress = 55
    /\ character.health = 80

\* C15: work takes 25 off the health whenever it leaves stress at 100, also
\* when stress + 10 is exactly 100, and the health never goes below 0.
SaturatedWorkCostsHealth ==
    [][WorkDone =>
        character'.health =
            IF character.stress + 10 >= 100
            THEN (IF character.health - 25 < 0 THEN 0
                  ELSE character.health - 25)
            ELSE character.health]_vars

\* C16: relax takes min(25, stress) off the stress, which so stays at 0 or
\* above, sets health to min(100, health + 5), returns the reduction and
\* leaves every other field as it was.
RelaxRecovers ==
    [][Calls("relax") =>
        LET reduction == IF character.stress < 25 THEN character.stress ELSE 25
        IN  /\ character' = [character EXCEPT
                                !.stress = @ - reduction,
                                !.health = IF @ + 5 > 100 THEN 100 ELSE @ + 5]
            /\ call'.ret = reduction
            /\ character.stress >= 0 => character'.stress >= 0]_vars

\* a character with stress 10 and health 98 after one call of relax: both
\* the reduction and the health were cut short
RelaxRecoversWitness ==
    /\ call.op = "relax"
    /\ call.count = 1
    /\ call.ret = 10
    /\ character.stress = 0
    /\ character.health = 100

\* C17: pay_debt(amount) pays min(amount, debt, savings), takes the payment
\* off savings and off debt, adds payment / 1000 to credit_score up to 850,
\* returns the payment, and leaves neither savings nor debt below 0.
DebtPaid ==
    [][Calls("pay_debt") =>
        LET amount == call'.arg
            least == IF character.debt < character.savings
                     THEN character.debt ELSE character.savings
            payment == IF amount < least THEN amount ELSE least
            raised == character.credit_score + payment \div 1000
        IN  /\ character' = [character EXCEPT
                                !.savings = @ - payment,
                                !.debt = @ - payment,
                                !.credit_score =
                                    IF raised > 85000 THEN 85000 ELSE raised]
            /\ call'.ret = payment
            /\ character'.savings >= 0
            /\ character'.debt >= 0]_vars

\* 3000 paid out of savings of 6500 on a debt of 8000, with the credit score
\* stopped at 850
DebtPaidWitness ==
    /\ call.op = "pay_debt"
    /\ call.count = 1
    /\ call.arg = 3000 * 100
    /\ call.ret = 3000 * 100
    /\ character.savings = 3500 * 100
    /\ character.debt = 5000 * 100
    /\ character.credit_score = 850 * 100

\* C18 as stated: on Jane (savings 2000, debt 8000) pay_debt(3000) pays 2000
\* and leaves savings 0 and debt 5000.
JanePaysDebtTo5000 ==
    (/\ call.op = "pay_debt" /\ call.count = 1 /\ call.arg = 3000 * 100
     /\ character.name = "Jane") =>
        /\ call.ret = 2000 * 100
        /\ character.savings = 0
        /\ character.debt = 5000 * 100

\* C18 amended: on Jane (savings 2000, debt 8000) pay_debt(3000) pays 2000
\* and leaves savings 0 and debt 6000.
JanePaysDebt ==
    (/\ call.op = "pay_debt" /\ call.count = 1 /\ call.arg = 3000 * 100
     /\ character.name = "Jane") =>
        /\ call.ret = 2000 * 100
        /\ character.savings = 0
        /\ character.debt = 6000 * 100

\* Jane after pay_debt(3000)
JanePaysDebtWitness ==
    /\ call.op = "pay_debt"
    /\ call.count = 1
    /\ call.arg = 3000 * 100
    /\ character.name = "Jane"
    /\ call.ret = 2000 * 100
    /\ character.savings = 0
    /\ character.debt = 6000 * 100

\* C19: invest(amount) moves min(amount, savings) from savings to
\* investments, returns the amount moved and leaves every other field as it
\* was.
InvestMoves ==
    [][Calls("invest") =>
        LET moved == IF call'.arg < character.savings THEN call'.arg
                     ELSE character.savings
        IN  /\ character' = [character EXCEPT
                                !.savings = @ - moved,
                                !.investments = @ + moved]
            /\ call'.ret = moved]_vars

\* 10000 asked of savings of 6500: 6500 moved
InvestMovesWitness ==
    /\ call.op = "invest"
    /\ call.count = 1
    /\ call.arg = 10000 * 100
    /\ call.ret = 6500 * 100
    /\ character.savings = 0
    /\ character.investments = 6500 * 100

\* C20: a share-trading operation chosen from the investment menu returns to
\* the menu, with a success or with a failure that changes nothing: savings
\* and holdings change together or not at all, and the session goes on.
ShareTradingReturns ==
    [][(pc = "actions" /\ choice' = choice /\ main_actions_taken' = main_actions_taken) =>
            /\ pc' = "actions"
            /\ (character'.savings = character.savings
                    <=> character'.investments = character.investments)]_vars

\* C21: Event.apply changes savings, debt, income and investments by delta
\* times the field when the delta is strictly between -1 and 1 and by the
\* delta itself otherwise (-1.0 and 1.0 included); the deltas of credit_score,
\* stress, health and reputation are always added as they are, within the
\* clamps.
DeltaRule ==
    [][Calls("apply") =>
        LET ev == call'.arg.event
            Moved(delta, current) ==
                IF -100 < delta.value /\ delta.value < 100
                THEN current + (current * delta.value) \div 100
                ELSE current + delta.value
            Within(x, lo, hi) == IF x > hi THEN hi ELSE IF x < lo THEN lo ELSE x
        IN  /\ character'.savings = Moved(ev.savings_change, character.savings)
            /\ character'.debt = Moved(ev.debt_change, character.debt)
            /\ character'.income = Moved(ev.income_change, character.income)
            /\ character'.investments =
                    Moved(ev.investment_change, character.investments)
            /\ character'.credit_score =
                    Within(character.credit_score + ev.credit_score_change,
                           30000, 85000)
            /\ character'.stress =
                    Within(character.stress + ev.stress_change, 0, 100)
            /\ character'.health =
                    Within(character.health + ev.health_change, 0, 100)
            /\ character'.reputation =
                    Within(character.reputation + ev.reputation_change, 0, 100)]_vars

\* a delta of exactly 1.0 on savings of 6500 and investments of 1000: one
\* dollar is added to each, neither is doubled
DeltaRuleWitness ==
    /\ call.op = "apply"
    /\ call.arg.event.savings_change = FloatDelta(100)
    /\ call.arg.entity.savings = 6500 * 100
    /\ character.savings = 6500 * 100 + 100
    /\ character.investments = 1000 * 100 + 100

\* the character is within the documented ranges
InvariantsHold(c) ==
    /\ c.savings >= 0
    /\ c.debt >= 0
    /\ c.investments >= 0
    /\ 0 <= c.stress /\ c.stress <= 100
    /\ 0 <= c.health /\ c.health <= 100
    /\ 0 <= c.reputation /\ c.reputation <= 100
    /\ 300 * 100 <= c.credit_score /\ c.credit_score <= 850 * 100

\* C22: an event of the catalog applied to a character within the ranges
\* leaves it within the ranges.
EventsKeepInvariants ==
    [][(/\ Calls("apply")
        /\ call'.arg.event \in Catalog
        /\ InvariantsHold(character)) => InvariantsHold(character')]_vars

\* C23: the effects map holds the four financial fields, zero or not, and of
\* the other fields exactly those whose delta is not zero, each with the
\* change before clamping.
EffectsOmitZeroes ==
    [][Calls("apply") =>
        LET ev == call'.arg.event
            Delta(field) ==
                CASE field = "credit_score" -> ev.credit_score_change
                  [] field = "stress" -> ev.stress_change
                  [] field = "health" -> ev.health_change
                  [] field = "reputation" -> ev.reputation_change
        IN  /\ DOMAIN call'.ret =
                    {"savings", "debt", "income", "investments"} \cup
                    { field \in {"credit_score", "stress", "health", "reputation"} :
                        Delta(field) # 0 }
            /\ \A field \in {"credit_score", "stress", "health", "reputation"} :
                    field \in DOMAIN call'.ret => call'.ret[field] = Delta(field)]_vars

HistoricalFirst ==
    [][Calls("get_random_event") =>
        LET date == call'.arg.date
        IN  /\ (date.year = 2007 /\ date.month = 2) =>
                    call'.ret.event.title = "Stock Market Dip"
            /\ (date.year = 2008 /\ date.month = 9) =>
                    call'.ret.event.title = "Lehman Brothers Bankruptcy"]_vars

\* C26: whenever get_random_event builds the financial pool, the pool holds
\* the five base events once each and Promotion 3 times when reputation > 75,
\* once when 50 < reputation <= 75 and not at all when reputation <= 50,
\* whatever earlier calls did.
PromotionWeight ==
    [][(Calls("get_random_event") /\ call'.ret.financial_events # <<>>) =>
        LET pool == call'.ret.financial_events
            Times(title) ==
                Cardinality({ i \in DOMAIN pool : pool[i].title = title })
            reputation == character.reputation
        IN  /\ Times("Promotion") =
                    IF reputation > 75 THEN 3
                    ELSE IF reputation > 50 THEN 1 ELSE 0
            /\ \A title \in {"Car Repair", "Bonus at Work", "Medical Expense",
                               "Tax Refund", "Credit Card Fee"} : Times(title) = 1
            /\ Len(pool) = 5 + Times("Promotion")]_vars

\* a second call in a row, on reputation 75: Promotion once among six
PromotionWeightWitness ==
    /\ call.op = "get_random_event"
    /\ call.count = 2
    /\ character.reputation = 75
    /\ Len(call.ret.financial_events) = 6

\* C27: calculate_investment_return samples from [-25, 5] on the dates less
\* than 60 days from 2008-09-15 (2008-07-18 to 2008-11-13), else from
\* [-2, 15] on the dates less than 30 days from 2007-10-09 (2007-09-10 to
\* 2007-11-07), else from [-15, 8] on the dates less than 45 days from
\* 2008-03-14 (2008-01-30 to 2008-04-27), else from [-8, 12]; on the first of
\* a month that is the first range for Aug-Nov 2008, the second for Oct-Nov
\* 2007 and the third for Feb-Apr 2008.
RangeByDate ==
    [][Calls("calculate_investment_return") =>
        LET date == call'.arg.current_date
            day == date.year * 10000 + date.month * 100 + date.day
            range == call'.ret.range
        IN  /\ range =
                    IF 20080718 <= day /\ day <= 20081113 THEN <<-25, 5>>
                    ELSE IF 20070910 <= day /\ day <= 20071107 THEN <<-2, 15>>
                    ELSE IF 20080130 <= day /\ day <= 20080427 THEN <<-15, 8>>
                    ELSE <<-8, 12>>
            /\ range[1] <= call'.ret.base_return
            /\ call'.ret.base_return <= range[2]
            /\ date.day = 1 =>
                    /\ range = <<-25, 5>> <=>
                            (date.year = 2008 /\ date.month \in 8 .. 11)
                    /\ range = <<-2, 15>> <=>
                            (date.year = 2007 /\ date.month \in 10 .. 11)
                    /\ range = <<-15, 8>> <=>
                            (date.year = 2008 /\ date.month \in 2 .. 4)]_vars

\* the turn of November 2008, 41 months into a session: the lowest return of
\* the Lehman range is drawn
RangeByDateWitness ==
    /\ call.op = "calculate_investment_return"
    /\ call.count = 42
    /\ call.arg.current_date = Date(2008, 11, 1)
    /\ call.ret.range = <<-25, 5>>
    /\ call.ret.base_return = -25

\* C28: new_amount is amount * (1 + base_return * (0.5 + risk_rating / 10));
\* for an amount above 0 and a risk rating from 1 to 10 it is at least
\* 0.625 * amount, hence above 0.
ReturnScaled ==
    [][Calls("calculate_investment_return") =>
        LET amount == call'.arg.amount
            risk_rating == call'.arg.risk_rating
            new_amount == call'.ret.new_amount
        IN  /\ amount % 10000 = 0
            /\ new_amount =
                    (amount \div 10000) *
                    (10000 + call'.ret.base_return * (50 + risk_rating))
            /\ (amount > 0 /\ 10 <= risk_rating /\ risk_rating <= 100) =>
                    /\ new_amount * 8 >= 5 * amount
                    /\ new_amount > 0]_vars

\* 1000 invested at risk 10 when -25% is drawn: 625 are left
ReturnScaledWitness ==
    /\ call.op = "calculate_investment_return"
    /\ call.arg.amount = 1000 * 100
    /\ call.arg.risk_rating = 100
    /\ call.ret.base_return = -25
    /\ call.ret.new_amount = 625 * 100

\* C29: get_market_sentiment returns the string of the period the date lies
\* in, the periods starting on 2006-04-01, 2007-02-01, 2008-03-14, 2008-09-15
\* and 2009-03-09; a month later the string is the same or a later one, and
\* the 48 turn dates of a session go through all six.
SentimentSteps ==
    /\ [][Calls("get_market_sentiment") =>
            LET date == call'.arg
                day == date.year * 10000 + date.month * 100 + date.day
            IN  call'.ret =
                    IF day < 20060401
                    THEN "Housing market booming, confidence high"
                    ELSE IF day < 20070201
                    THEN "Housing prices leveling off, but markets strong"
                    ELSE IF day < 20080314
                    THEN "Concerns about subprime mortgages, market volatile"
                    ELSE IF day < 20080915
                    THEN "Serious financial instability, Bear Stearns bailout"
                    ELSE IF day < 20090309
                    THEN "Financial crisis in full effect, panic in markets"
                    ELSE "Markets beginning to stabilize, signs of recovery"]_vars
    /\ [][Calls("add_one_month") =>
            SentimentRank(current_date') >= SentimentRank(current_date)]_vars
    /\ []((call.op = "add_one_month" /\ call.arg = TurnDate(call.count)) =>
            current_date = TurnDate(call.count + 1))
    /\ []((call.op = "add_one_month" /\ current_date = TurnDate(max_turns)) =>
            /\ \A n \in 1 .. max_turns - 1 :
                    SentimentRank(TurnDate(n)) <= SentimentRank(TurnDate(n + 1))
            /\ { SentimentRank(TurnDate(n)) : n \in 1 .. max_turns } = 1 .. 6)

\* the turn of February 2007, 20 months into a session, is the day the third
\* period starts
SentimentStepsWitness ==
    /\ call.op = "get_market_sentiment"
    /\ call.count = 21
    /\ call.arg = Date(2007, 2, 1)
    /\ call.ret = "Concerns about subprime mortgages, market volatile"

\* C30: add_one_month returns the date in the next calendar month, December
\* rolling to January of the next year, on the same day of the month or on
\* the last day of that month if it is shorter, leap years by the Gregorian
\* rule; 2008-01-31 gives 2008-02-29 and 2007-01-31 gives 2007-02-28.
MonthAdded ==
    [][Calls("add_one_month") =>
        LET d == call'.arg
            r == call'.ret
            leap == (r.year % 4 = 0 /\ r.year % 100 # 0) \/ r.year % 400 = 0
            length == IF r.month = 2 THEN (IF leap THEN 29 ELSE 28)
                      ELSE IF r.month \in {4, 6, 9, 11} THEN 30 ELSE 31
        IN  /\ r.month \in 1 .. 12
            /\ r.year * 12 + r.month = d.year * 12 + d.month + 1
            /\ r.day = IF d.day < length THEN d.day ELSE length
            /\ current_date' = r
            /\ d = Date(2008, 1, 31) => r = Date(2008, 2, 29)
            /\ d = Date(2007, 1, 31) => r = Date(2007, 2, 28)]_vars

\* the last day of January 2008 moved to the leap day
MonthAddedWitness ==
    /\ call.op = "add_one_month"
    /\ call.arg = Date(2008, 1, 31)
    /\ call.ret = Date(2008, 2, 29)
    /\ current_date = Date(2008, 2, 29)

\* C31: action_volunteer takes a tenth off the session's monthly_expenses,
\* which stay at or above 0, lowers risk_rating by 0.5 but not below 1.0, sets
\* volunteer_bonus to 0.1 and leaves every other field of the character as it
\* was; nothing else changes monthly_expenses, and process_expenses charges
\* the monthly_expenses of the session as they stand.
VolunteerEffects ==
    /\ [][Calls("action_volunteer") =>
            /\ 9 * monthly_expenses <= 10 * monthly_expenses'
            /\ 10 * monthly_expenses' < 9 * monthly_expenses + 10
            /\ monthly_expenses' >= 0
            /\ character' =
                    [character EXCEPT
                        !.risk_rating = IF @ - 5 < 10 THEN 10 ELSE @ - 5,
                        !.volunteer_bonus = 120]]_vars
    /\ [][monthly_expenses' # monthly_expenses => Calls("action_volunteer")]_vars
    /\ [][Calls("process_expenses") =>
            /\ character.savings >= monthly_expenses =>
                    character'.savings = character.savings - monthly_expenses
            /\ character.savings < monthly_expenses =>
                    /\ character'.savings = 0
                    /\ character'.pending_debt =
                            monthly_expenses - character.savings]_vars

\* a character of risk rating 1.2 after volunteering and paying the month:
\* the rating stopped at 1.0 and nine tenths of 2583.33 were charged
VolunteerEffectsWitness ==
    /\ call.op = "process_expenses"
    /\ call.count = 2
    /\ character.risk_rating = 10
    /\ character.volunteer_bonus = 120
    /\ monthly_expenses = 232500
    /\ character.savings = 6500 * 100 - 232500

\* C32: while the investment menu can be opened and a bet is within the
\* exploration bounds, the casino can be chosen exactly when risk_rating > 7
\* and debt > 10000; a step of the menu that raises savings, or lowers them
\* without moving investments or debt, is a bet: the casino was offered, the
\* stake won or lost is at most the savings, savings do not go below 0, and
\* risk_rating, investments and debt stay as they were.
CasinoRule ==
    /\ []((/\ pc = "actions"
           /\ Cardinality(main_actions_taken) < main_actions_limit
           /\ InWindow
           /\ used.extras < MaxExtras) =>
            (ENABLED ActionCasino <=>
                (character.risk_rating > 70 /\ character.debt > 1000000)))
    /\ [][(/\ pc = "actions"
           /\ pc' = "actions"
           /\ main_actions_taken' = main_actions_taken
           /\ \/ character'.savings > character.savings
              \/ /\ character'.savings < character.savings
                 /\ character'.investments = character.investments
                 /\ character'.debt = character.debt) =>
            /\ character.risk_rating > 70
            /\ character.debt > 1000000
            /\ character'.savings >= 0
            /\ character'.savings <= 2 * character.savings
            /\ character' = [character EXCEPT !.savings = character'.savings]]_vars

\* a character of risk rating 8 and debt 12000 after winning a bet of 3916,
\* the whole dollars of the 3916.67 left by the month's expenses
CasinoRuleWitness ==
    /\ pc = "actions"
    /\ character.risk_rating = 80
    /\ character.debt = 12000 * 100
    /\ character.savings = 783267
    /\ character.investments = 0

\* C33: a trade chosen in the investment menu, of whatever type, completes:
\* the player is back in the action menu, and when funds moved between
\* savings and investments the risk_rating moved by the delta of one of the
\* types (0, -1, +2, +4, +3), within 1.0 .. 10.0.
TradesMoveRisk ==
    [][(/\ pc = "actions"
        /\ main_actions_taken' = main_actions_taken
        /\ choice' = choice) =>
            /\ pc' = "actions"
            /\ character'.investments # character.investments =>
                    /\ character'.savings + character'.investments =
                            character.savings + character.investments
                    /\ \E delta \in {0, -10, 20, 40, 30} :
                            character'.risk_rating =
                                IF character.risk_rating + delta > 100 THEN 100
                                ELSE IF character.risk_rating + delta < 10 THEN 10
                                ELSE character.risk_rating + delta]_vars

\* C34: the trigger probability play_turn computes lies between 0.2 and 0.6,
\* and is 0.6 whenever the turn is played at stress 100, with or without the
\* volunteer bonus.
TriggerChanceRange ==
    [][(pc = "loop" /\ pc' = "actions") =>
            /\ 240 <= base_chance'
            /\ base_chance' <= 720
            /\ character.stress = 100 => base_chance' = 720]_vars

\* play_turn on a character of stress 100 who has volunteered: the
\* probability is stopped at 0.6
TriggerChanceRangeWitness ==
    /\ pc = "actions"
    /\ call.op = "action_volunteer"
    /\ character.volunteer_bonus = 120
    /\ character.stress = 100
    /\ base_chance = 720

\* C35: in a session of Hudson or Jane the credit score never decreases,
\* only the pay-debt action changes it, it stays at or above the preset's
\* starting value, and the bankruptcy condition is never met.
CreditNeverFalls ==
    [][/\ character'.credit_score >= character.credit_score
       /\ character'.credit_score # character.credit_score =>
              /\ pc = "actions"
              /\ character'.debt < character.debt
       /\ character.name = "Hudson" => character'.credit_score >= 720 * 100
       /\ character.name = "Jane" => character'.credit_score >= 680 * 100
       /\ ~LostBankruptcy(character')
       /\ message' # "bankrupt"]_vars

\* Jane after a payment on her debt: the credit score has risen above 680
CreditNeverFallsWitness ==
    /\ character.name = "Jane"
    /\ pc = "actions"
    /\ character.debt < 8000 * 100
    /\ character.credit_score > 680 * 100

\* C36: within one turn a main action is taken only if its type has not been
\* taken in that turn, so the two main actions of a surge turn are of
\* different types; Relax at stress <= 10 changes no field of the character
\* and still counts as one main action.
MainActionsOnce ==
    [][(pc = "actions" /\ choice' \in MainActions /\
            (choice' # choice \/ main_actions_taken' # main_actions_taken)) =>
          /\ choice' \notin main_actions_taken
          /\ main_actions_taken' = main_actions_taken \cup {choice'}
          /\ Cardinality(main_actions_taken') =
                 Cardinality(main_actions_taken) + 1
          /\ (choice' = "relax" /\ character.stress <= 10) =>
                 character' = character
          /\ (choice' = "relax" /\ character.stress > 10) =>
                 character'.stress < character.stress]_vars

\* Hudson's third turn, a surge turn, after two turns of Relax (stress 45,
\* 20, 0; health 80, 85, 90): Work brings the stress to 10, then Relax is
\* taken as the second main action and changes nothing
MainActionsOnceWitness ==
    /\ character.name = "Hudson"
    /\ turn = 3
    /\ allow_multiple_actions
    /\ main_actions_taken = {"work", "relax"}
    /\ choice = "relax"
    /\ character.stress = 10
    /\ character.health = 90

\* C37: in every state of a session current_date is the first of a month,
\* namely 2005-06-01 advanced by turn - 1 months, and turn lies in 1..49; a
\* session that completes without a loss ends with turn = 49 and
\* current_date = end_date = 2009-06-01.
DateFollowsTurn ==
    /\ turn \in 1..(max_turns + 1)
    /\ current_date.day = 1
    /\ current_date = TurnDate(turn)
    /\ TurnDate(1) = start_date
    /\ (pc = "done" /\ ~game_over) =>
           /\ turn = 49
           /\ current_date = end_date
           /\ end_date = Date(2009, 6, 1)

\* a session completed without a loss
DateFollowsTurnWitness ==
    /\ pc = "done"
    /\ ~game_over
    /\ turn = 49
    /\ current_date = Date(2009, 6, 1)

NetWorthKept ==
    [][/\ (Calls("pay_debt") \/ Calls("invest")) =>
              get_net_worth(character') = get_net_worth(character)
       /\ Calls("process_expenses") =>
              /\ get_net_worth(character') =
                     get_net_worth(character)
                         - Min(character.savings, monthly_expenses)
              /\ character.savings < monthly_expenses =>
                     /\ character'.pending_debt =
                            monthly_expenses - character.savings
                     /\ character'.debt = character.debt
                     /\ get_net_worth(character') =
                            get_net_worth(character) - character.savings]_vars

\* Jane after invest(3000) and process_expenses: the 2000 of savings are
\* invested, the expenses of 3333.33 are all pending, and the net worth is
\* still -6000
NetWorthKeptWitness ==
    /\ call.op = "process_expenses"
    /\ call.count = 2
    /\ character.name = "Jane"
    /\ character.investments = 2000 * 100
    /\ character.debt = 8000 * 100
    /\ character.pending_debt = 333333
    /\ get_net_worth(character) = -(6000 * 100)

\* the exploration does not follow the session into the next turn
NotFollowed ==
    /\ pc = "loop"
    /\ LoopCondition
    /\ ~ENABLED PlayTurn

====
